---- MODULE Spec2Model ----
(***************************************************************************)
(* The gmossp bidder adapter, in its two generations:                      *)
(*   "GET"  : modules/gmosspBidAdapter.js, one GET request per bid         *)
(*   "POST" : the later adapter, one aggregate POST request                *)
(*                                                                         *)
(* JavaScript values are tagged records, so that values of different types *)
(* can be compared:                                                        *)
(*   undefined, null, string s, number n, boolean b, array a, object o     *)
(* An object's o is a function from property names to values; a property   *)
(* that is not in its domain is missing (reads as undefined).              *)
(* Text that the code builds piece by piece and that the properties look   *)
(* into (the query string) is kept as the sequence of its pieces; the text *)
(* is their concatenation.                                                 *)
(***************************************************************************)
EXTENDS Integers, Sequences, FiniteSets

VARIABLES
    variant,            \* which adapter is registered: "GET" or "POST"
    config,             \* config.getConfig('currency.adServerCurrency')
    dnt,                \* what getDNT() reads from the browser
    validBidRequests,   \* argument of the last buildRequests
    bidderRequest,      \* argument of the last buildRequests
    serverRequests,     \* what the last buildRequests returned
    serverResponse,     \* the response object handed to interpretResponse
    received,           \* the body of that response as the server sent it
    entryBody,          \* the body at the entry of the last interpretResponse
    bids,               \* what the last interpretResponse returned
    prevBids,           \* what the call before it, on the same object, returned
    calls,              \* interpretResponse calls made on serverResponse
    errorLog,           \* logError calls made by the last interpretResponse
    syncOptions,        \* argument of the last getUserSyncs
    serverResponses,    \* argument of the last getUserSyncs
    userSyncs,          \* what the last getUserSyncs returned
    thrown,             \* the error the last call let escape, or "none"
    op                  \* the last call made

vars == <<variant, config, dnt, validBidRequests, bidderRequest, serverRequests,
          serverResponse, received, entryBody, bids, prevBids, calls, errorLog,
          syncOptions, serverResponses, userSyncs, thrown, op>>

buildVars == <<validBidRequests, bidderRequest, serverRequests>>
respVars == <<serverResponse, received, entryBody, bids, prevBids, calls, errorLog>>
syncVars == <<syncOptions, serverResponses, userSyncs>>
envVars == <<variant, config, dnt>>

-----------------------------------------------------------------------------
(* Bounds of the model *)

MaxBids == 2
MaxRows == 2
MaxCalls == 2
MaxResponses == 2

-----------------------------------------------------------------------------
(* JavaScript values *)

Undef == [t |-> "undefined"]
Null == [t |-> "null"]
Str(s) == [t |-> "string", s |-> s]
Num(n) == [t |-> "number", n |-> n]
Bool(b) == [t |-> "boolean", b |-> b]
Arr(a) == [t |-> "array", a |-> a]
Obj(o) == [t |-> "object", o |-> o]

EmptyObj == Obj(<<>>)

\* ToBoolean
Truthy(v) ==
    CASE v.t = "undefined" -> FALSE
      [] v.t = "null" -> FALSE
      [] v.t = "string" -> v.s # ""
      [] v.t = "number" -> v.n # 0
      [] v.t = "boolean" -> v.b
      [] v.t = "array" -> TRUE
      [] v.t = "object" -> TRUE

\* a || b
Or(a, b) == IF Truthy(a) THEN a ELSE b

\* whether v.k can be read at all: reading a property of undefined or null
\* raises a TypeError
Readable(v) == v.t \notin {"undefined", "null"}

\* v.k, for a Readable v
Prop(v, k) ==
    CASE v.t = "object" -> IF k \in DOMAIN v.o THEN v.o[k] ELSE Undef
      [] v.t = "array" -> IF k = "length" THEN Num(Len(v.a)) ELSE Undef
      [] v.t = "string" -> IF k = "length" THEN Num(Len(v.s)) ELSE Undef
      [] OTHER -> Undef

\* obj with obj.k set to val
SetProp(v, k, val) ==
    Obj([x \in DOMAIN v.o \cup {k} |-> IF x = k THEN val ELSE v.o[x]])

Digit(d) ==
    CASE d = 0 -> "0" [] d = 1 -> "1" [] d = 2 -> "2" [] d = 3 -> "3"
      [] d = 4 -> "4" [] d = 5 -> "5" [] d = 6 -> "6" [] d = 7 -> "7"
      [] d = 8 -> "8" [] d = 9 -> "9"

RECURSIVE NumToString(_)
NumToString(n) ==
    IF n < 10 THEN Digit(n) ELSE NumToString(n \div 10) \o Digit(n % 10)

\* ToString, as string concatenation and the URI encoders apply it
RECURSIVE ToString(_)
RECURSIVE JoinFrom(_, _)
JoinFrom(a, i) ==
    IF i > Len(a) THEN ""
    ELSE (IF i > 1 THEN "," ELSE "")
         \o (IF a[i].t \in {"undefined", "null"} THEN "" ELSE ToString(a[i]))
         \o JoinFrom(a, i + 1)

ToString(v) ==
    CASE v.t = "undefined" -> "undefined"
      [] v.t = "null" -> "null"
      [] v.t = "string" -> v.s
      [] v.t = "number" -> NumToString(v.n)
      [] v.t = "boolean" -> IF v.b THEN "true" ELSE "false"
      [] v.t = "array" -> JoinFrom(v.a, 1)
      [] v.t = "object" -> "[object Object]"

\* a + b where b is a string
Concat(a, s) == Str(ToString(a) \o s)

-----------------------------------------------------------------------------
(* Strings of the model and their URI encodings *)

\* stands for a tracker URL holding a lone surrogate (\uD800), which the URI
\* encoders reject with a URIError
Malformed == "http://t3/\\uD800"

\* whether encodeURI / encodeURIComponent raise a URIError on the text
URIMalformed(s) == s = Malformed

\* encodeURI: letters, digits and ; / ? : @ & = + $ , - _ . ! ~ * ' ( ) #
\* are kept, every other character becomes %XX
EncodeURI(s) ==
    CASE s = "http://t 2" -> "http://t%202"
      [] s = "[object Object]" -> "%5Bobject%20Object%5D"
      [] OTHER -> s

\* encodeURIComponent: letters, digits and - _ . ! ~ * ' ( ) are kept
EncodeURIComponent(s) ==
    CASE s = "http://page/" -> "http%3A%2F%2Fpage%2F"
      [] s = "$prebid.version$" -> "%24prebid.version%24"
      [] s = "[object Object]" -> "%5Bobject%20Object%5D"
      [] OTHER -> s

-----------------------------------------------------------------------------
(* The helpers of src/utils.js and of the currency library that the        *)
(* adapters call                                                           *)

\* utils.isEmpty
isEmpty(object) ==
    CASE ~Truthy(object) -> TRUE
      [] object.t = "array" -> Len(object.a) = 0
      [] object.t = "string" -> Len(object.s) = 0
      [] object.t = "object" -> DOMAIN object.o = {}
      [] OTHER -> TRUE

\* utils.isStr
isStr(value) == value.t = "string"

\* utils.getBidIdParameter: paramsObj[key] || ''
getBidIdParameter(key, paramsObj) ==
    IF Readable(paramsObj) /\ Truthy(Prop(paramsObj, key))
    THEN Prop(paramsObj, key)
    ELSE Str("")

\* utils.deepAccess for a path of two names
deepAccess(obj, k1, k2) ==
    IF Readable(obj) /\ Readable(Prop(obj, k1)) THEN Prop(Prop(obj, k1), k2) ELSE Undef

\* utils.deepAccess for a path of three names
deepAccess3(obj, k1, k2, k3) ==
    IF Readable(deepAccess(obj, k1, k2)) THEN Prop(deepAccess(obj, k1, k2), k3) ELSE Undef

\* utils.tryAppendQueryString: the key, "=", the encoded value and "&" are
\* appended when the value is truthy, nothing otherwise
tryAppendQueryString(existingUrl, key, value) ==
    IF Truthy(value)
    THEN existingUrl \o <<key, "=", EncodeURIComponent(ToString(value)), "&">>
    ELSE existingUrl

\* utils.setOnAny with a path of two names: the first truthy value found
RECURSIVE setOnAnyFrom(_, _, _, _)
setOnAnyFrom(collection, k1, k2, i) ==
    IF i > Len(collection) THEN Undef
    ELSE IF Truthy(deepAccess(collection[i], k1, k2)) THEN deepAccess(collection[i], k1, k2)
    ELSE setOnAnyFrom(collection, k1, k2, i + 1)

setOnAny(collection, k1, k2) == setOnAnyFrom(collection, k1, k2, 1)

\* utils.setOnAny with a path of three names
RECURSIVE setOnAny3From(_, _, _, _, _)
setOnAny3From(collection, k1, k2, k3, i) ==
    IF i > Len(collection) THEN Undef
    ELSE IF Truthy(deepAccess3(collection[i], k1, k2, k3))
    THEN deepAccess3(collection[i], k1, k2, k3)
    ELSE setOnAny3From(collection, k1, k2, k3, i + 1)

setOnAny3(collection, k1, k2, k3) == setOnAny3From(collection, k1, k2, k3, 1)

\* utils.createTrackPixelHtml: '' for a falsy url, else the hidden div with
\* the img of the encoded url. Defined where encodeURI does not raise.
createTrackPixelHtml(url) ==
    IF ~Truthy(url) THEN ""
    ELSE "<div style=\"position:absolute;left:0px;top:0px;visibility:hidden;\">"
         \o "<img src=\"" \o EncodeURI(ToString(url)) \o "\"></div>"

\* whether createTrackPixelHtml(url) raises
createTrackPixelHtmlThrows(url) == Truthy(url) /\ URIMalformed(ToString(url))

\* the per-auction currency override: ortb2.ext.prebid.adServerCurrency
currencyOverride(br) ==
    IF Readable(br) /\ Readable(deepAccess(br, "ortb2", "ext"))
    THEN deepAccess(deepAccess(br, "ortb2", "ext"), "prebid", "adServerCurrency")
    ELSE Undef

\* getCurrencyFromBidderRequest: the per-auction override, else the global
\* configuration
getCurrencyFromBidderRequest(br, cfg) == Or(currencyOverride(br), cfg)

\* JSON.stringify of an object: the text is kept as the value JSON.parse
\* reads back from it, in which a property whose value is undefined is gone
RECURSIVE JSONStringify(_)
JSONStringify(v) ==
    CASE v.t = "object" ->
           Obj([k \in {x \in DOMAIN v.o : v.o[x].t # "undefined"} |-> JSONStringify(v.o[k])])
      [] v.t = "array" ->
           Arr([i \in 1..Len(v.a) |->
                  IF v.a[i].t = "undefined" THEN Null ELSE JSONStringify(v.a[i])])
      [] OTHER -> v

-----------------------------------------------------------------------------
(* The environment and the inputs                                          *)

ENDPOINT_GET == "https://mabuchi-ad.devel.sp.gmossp-sp.jp/hb/prebid/query.ad"
ENDPOINT_POST == "https://sp.gmossp-sp.jp/hb/prebid/query.ad"
PrebidVersion == "$prebid.version$"

\* window.document.referrer and the page's meta elements
documentReferrer == Str("http://ref/")
metaElements ==
    << [property |-> Str("og:title"), content |-> Str("title")],
       [property |-> Str("og:url"), content |-> Str("http://og/")] >>

\* the bid requests of the page's ad slots, in the order of the slots
BidRequestSlots ==
    << Obj([bidId |-> Str("b1"), transactionId |-> Str("tx1"),
            params |-> Obj([sid |-> Str("s1")]),
            userId |-> Obj([imuid |-> Str("im1")])]),
       Obj([bidId |-> Str("b2"),
            params |-> Obj([sid |-> Str("s2"), native |-> Bool(TRUE)])]),
       Obj([bidId |-> Str("b3"), transactionId |-> Str("tx3"),
            params |-> Obj([sid |-> Str("s1")]),
            userId |-> Obj([pubcid |-> Str("pc3")])]),
       Obj([bidId |-> Str("b4"), transactionId |-> Str("tx4"),
            params |-> EmptyObj]) >>

BidRequestUniverse == { BidRequestSlots[i] : i \in 1..Len(BidRequestSlots) }

\* spec.isBidRequestValid: !!(bid.params.sid)
isBidRequestValid(bid) == Truthy(Prop(Prop(bid, "params"), "sid"))

\* the sequences without repetition, of length 1..n, over S
InjectiveSeqs(S, n) ==
    UNION { { q \in [1..k -> S] : \A i, j \in 1..k : i # j => q[i] # q[j] } : k \in 1..n }

\* the lists the orchestrator passes to buildRequests: only requests that
\* passed isBidRequestValid, each bid once
ValidBidLists ==
    InjectiveSeqs({ r \in BidRequestUniverse : isBidRequestValid(r) }, MaxBids)

SlotOf(r) == CHOOSE i \in 1..Len(BidRequestSlots) : BidRequestSlots[i] = r

\* those lists that keep the order of the slots
SlotOrderBidLists ==
    { q \in ValidBidLists : \A i, j \in 1..Len(q) : i < j => SlotOf(q[i]) < SlotOf(q[j]) }

RefererInfos ==
    { Obj([referer |-> Str("http://page/"), topmostLocation |-> Str("http://page/"),
           canonicalUrl |-> Str("http://canon/"), ref |-> Str("http://from/")]),
      EmptyObj }

UserIds ==
    { Undef, EmptyObj, Obj([idl_env |-> Str("ID1")]), Obj([idl_env |-> Num(7)]) }

Ortb2s ==
    { Undef,
      Obj([ext |-> Obj([prebid |-> Obj([adServerCurrency |-> Str("USD")])])]) }

\* an input object with optional fields: a field given as undefined is missing
Literal(o) == Obj([k \in { x \in DOMAIN o : o[x].t # "undefined" } |-> o[k]])

BidderRequests ==
    { Literal([refererInfo |-> ri, userId |-> u, ortb2 |-> o]) :
        ri \in RefererInfos, u \in UserIds, o \in Ortb2s }

\* the bidderRequest of the auctions whose responses are followed
PlainBidderRequest ==
    Obj([refererInfo |-> Obj([referer |-> Str("http://page/"),
                              topmostLocation |-> Str("http://page/")])])

GlobalCurrencies == { Undef, Str("EUR") }

-----------------------------------------------------------------------------
(* buildRequests                                                           *)

\* getCurrencyType of the GET adapter
getCurrencyType_GET(cfg) ==
    IF Truthy(cfg) THEN cfg ELSE Str("JPY")

\* getCurrencyType of the POST adapter
getCurrencyType_POST(br, cfg) ==
    Or(getCurrencyFromBidderRequest(br, cfg), Str("JPY"))

\* setUserId of the GET adapter: eids after the call
setUserId(eids, source, value) ==
    IF isStr(value)
    THEN Append(eids, Obj([source |-> Str(source),
                           uids |-> Arr(<< Obj([id |-> value]) >>)]))
    ELSE eids

\* the body of the loop of the GET adapter's buildRequests: the request built
\* for validBidRequests[i]
buildRequest_GET(request, br, cfg, d) ==
    LET url == Prop(Prop(br, "refererInfo"), "referer")
        cur == getCurrencyType_GET(cfg)
        dntv == IF d THEN Str("1") ELSE Str("0")
        tid == Prop(request, "transactionId")
        bid == Prop(request, "bidId")
        ver == Str(PrebidVersion)
        sid == getBidIdParameter("sid", Prop(request, "params"))
        native == getBidIdParameter("native", Prop(request, "params"))
        eids == IF Truthy(br) /\ Truthy(Prop(br, "userId"))
                THEN setUserId(<<>>, "liveramp.com", deepAccess(br, "userId", "idl_env"))
                ELSE <<>>
        q1 == tryAppendQueryString(<<>>, "tid", tid)
        q2 == tryAppendQueryString(q1, "bid", bid)
        q3 == tryAppendQueryString(q2, "ver", ver)
        q4 == tryAppendQueryString(q3, "sid", sid)
        q5 == tryAppendQueryString(q4, "url", url)
        q6 == tryAppendQueryString(q5, "cur", cur)
        q7 == tryAppendQueryString(q6, "dnt", dntv)
        q8 == tryAppendQueryString(q7, "native", native)
        q9 == tryAppendQueryString(q8, "usr", Arr(eids))
    IN [method |-> "GET", url |-> ENDPOINT_GET, data |-> q9]

\* the GET adapter's loop started one bid too late
buildRequests_GET_skipFirst(vbr, br, cfg, d) ==
    [i \in 1..(Len(vbr) - 1) |-> buildRequest_GET(vbr[i + 1], br, cfg, d)]

\* buildRequests of the GET adapter
buildRequests_GET(vbr, br, cfg, d) ==
    [i \in 1..Len(vbr) |-> buildRequest_GET(vbr[i], br, cfg, d)]

\* getUrlInfo's scan of the meta elements, from element i
RECURSIVE scanMeta(_, _)
scanMeta(canonicalLink, i) ==
    IF i > Len(metaElements) \/ Truthy(canonicalLink) THEN canonicalLink
    ELSE scanMeta(IF metaElements[i].property = Str("og:url")
                  THEN metaElements[i].content ELSE canonicalLink, i + 1)

\* getUrlInfo of the POST adapter
getUrlInfo(refererInfo) ==
    LET link == Prop(refererInfo, "canonicalUrl")
        canonicalLink == IF ~Truthy(link) THEN scanMeta(link, 1) ELSE link
    IN Obj([canonical_link |-> canonicalLink,
            url |-> Prop(refererInfo, "topmostLocation"),
            ref |-> Or(Prop(refererInfo, "ref"), documentReferrer)])

\* buildRequests of the POST adapter
buildRequests_POST(vbr, br, cfg, d) ==
    LET requests == [i \in 1..Len(vbr) |->
                       Obj([bid |-> Prop(vbr[i], "bidId"),
                            sid |-> getBidIdParameter("sid", Prop(vbr[i], "params"))])]
    IN << [method |-> "POST",
           url |-> ENDPOINT_POST,
           data |-> JSONStringify(Obj([
               ver |-> Str(PrebidVersion),
               eids |-> Obj([im_uid |-> setOnAny(vbr, "userId", "imuid"),
                             shared_id |-> setOnAny(vbr, "userId", "pubcid")]),
               url_info |-> getUrlInfo(Prop(br, "refererInfo")),
               cur |-> getCurrencyType_POST(br, cfg),
               dnt |-> IF d THEN Num(1) ELSE Num(0),
               device_sua |-> setOnAny3(vbr, "ortb2", "device", "sua"),
               user_data |-> setOnAny3(vbr, "ortb2", "user", "data"),
               requests |-> Arr(requests)]))] >>

\* spec.buildRequests of the registered adapter
buildRequests(v, vbr, br, cfg, d) ==
    IF v = "GET" THEN buildRequests_GET(vbr, br, cfg, d)
    ELSE buildRequests_POST(vbr, br, cfg, d)

-----------------------------------------------------------------------------
(* interpretResponse                                                       *)

BANNER == Str("banner")
NATIVE == Str("native")
DefaultTtl == 300

\* x > 0 for the value of a length property
GreaterThanZero(v) == v.t = "number" /\ v.n > 0

\* the items utils._each visits: those of an array, none for undefined, null,
\* a number or a boolean
eachItems(object) ==
    CASE object.t = "array" -> object.a
      [] object.t \in {"undefined", "null", "number", "boolean"} -> <<>>

\* the loop that appends the tracking pixels, from item i on, until an item
\* makes createTrackPixelHtml raise: the markup reached, the number of items
\* appended and whether it raised
RECURSIVE appendPixels(_, _, _)
appendPixels(ad, imps, i) ==
    IF i > Len(imps) THEN [ad |-> ad, done |-> i - 1, threw |-> FALSE]
    ELSE IF createTrackPixelHtmlThrows(imps[i]) THEN [ad |-> ad, done |-> i - 1, threw |-> TRUE]
    ELSE appendPixels(Concat(ad, createTrackPixelHtml(imps[i])), imps, i + 1)

\* getBannerAd whose catch gives up the pixels appended before the failure
getBannerAd_dropPartial(res) ==
    LET imps == Prop(res, "imps")
    IN IF imps.t # "array"
       THEN [res |-> res, ad |-> Prop(res, "ad"), logged |-> 1]
       ELSE LET r == appendPixels(Prop(res, "ad"), imps.a, 1)
            IN IF r.threw
               THEN [res |-> res, ad |-> Prop(res, "ad"), logged |-> 1]
               ELSE [res |-> IF r.done = 0 THEN res ELSE SetProp(res, "ad", r.ad),
                     ad |-> r.ad, logged |-> 0]

\* getBannerAd of the GET adapter: res after the call (res.ad is assigned for
\* every item appended), the markup returned and the number of errors logged.
\* res.imps.forEach raises a TypeError unless res.imps is an array; the catch
\* logs it.
getBannerAd(res) ==
    LET imps == Prop(res, "imps")
    IN IF imps.t # "array"
       THEN [res |-> res, ad |-> Prop(res, "ad"), logged |-> 1]
       ELSE LET r == appendPixels(Prop(res, "ad"), imps.a, 1)
                res2 == IF r.done = 0 THEN res ELSE SetProp(res, "ad", r.ad)
            IN [res |-> res2, ad |-> Prop(res2, "ad"), logged |-> IF r.threw THEN 1 ELSE 0]

\* whether the switch of getNativeAd raises on the asset: it reads
\* asset.title.text, asset.data.value or asset.img.url
assetThrows(asset) ==
    \/ ~Readable(asset)
    \/ /\ Prop(asset, "id") = Num(0)
       /\ ~Readable(Prop(asset, "title"))
    \/ /\ Prop(asset, "id") \in {Num(1), Num(2)}
       /\ ~Readable(Prop(asset, "data"))
    \/ /\ Prop(asset, "id") \in {Num(3), Num(4)}
       /\ ~Readable(Prop(asset, "img"))

\* the img bundle of the icon and image assets
imgOf(asset) ==
    Obj([url |-> Prop(Prop(asset, "img"), "url"),
         width |-> Prop(Prop(asset, "img"), "w"),
         height |-> Prop(Prop(asset, "img"), "h")])

\* the switch of getNativeAd: native after the asset
applyAsset(native, asset) ==
    CASE Prop(asset, "id") = Num(0) ->
           SetProp(native, "title", Prop(Prop(asset, "title"), "text"))
      [] Prop(asset, "id") = Num(1) ->
           SetProp(native, "body", Prop(Prop(asset, "data"), "value"))
      [] Prop(asset, "id") = Num(2) ->
           SetProp(native, "sponsoredBy", Prop(Prop(asset, "data"), "value"))
      [] Prop(asset, "id") = Num(3) -> SetProp(native, "icon", imgOf(asset))
      [] Prop(asset, "id") = Num(4) -> SetProp(native, "image", imgOf(asset))
      [] OTHER -> native

RECURSIVE applyAssets(_, _, _)
applyAssets(native, assets, i) ==
    IF i > Len(assets) THEN native
    ELSE applyAssets(applyAsset(native, assets[i]), assets, i + 1)

\* whether getNativeAd raises a TypeError: resNative.assets.length,
\* the assets' fields and resNative.link.url are read unguarded
getNativeAdThrows(resNative) ==
    LET assets == Prop(resNative, "assets")
    IN \/ ~Readable(assets)
       \/ /\ Truthy(Prop(assets, "length"))
          /\ \/ assets.t # "array"
             \/ \E i \in 1..Len(assets.a) : assetThrows(assets.a[i])
             \/ ~Readable(Prop(resNative, "link"))

\* getNativeAd of the GET adapter, where it does not raise
getNativeAd(resNative) ==
    LET assets == Prop(resNative, "assets")
    IN IF ~Truthy(Prop(assets, "length")) THEN EmptyObj
       ELSE LET n1 == applyAssets(EmptyObj, assets.a, 1)
                n2 == SetProp(n1, "clickUrl", Prop(Prop(resNative, "link"), "url"))
                n3 == SetProp(n2, "impressionTrackers",
                              Or(Prop(resNative, "imptrackers"), Arr(<<>>)))
                n4 == SetProp(n3, "privacyLink", Or(Prop(resNative, "privacy"), Str("")))
            IN SetProp(n4, "privacyIcon", Or(Prop(resNative, "privacyIcon"), Str("")))

\* the bid's requestId taken from the wrong field of the response
baseBid_GET_wrongId(res) ==
    [requestId |-> Prop(res, "creativeId"),
     cpm |-> Prop(res, "price"),
     currency |-> Prop(res, "cur"),
     width |-> Prop(res, "w"),
     height |-> Prop(res, "h"),
     creativeId |-> Prop(res, "creativeId"),
     netRevenue |-> Bool(TRUE),
     ttl |-> Or(Prop(res, "ttl"), Num(DefaultTtl))]

\* the fields every bid of the GET adapter has
baseBid_GET(res) ==
    [requestId |-> Prop(res, "bid"),
     cpm |-> Prop(res, "price"),
     currency |-> Prop(res, "cur"),
     width |-> Prop(res, "w"),
     height |-> Prop(res, "h"),
     creativeId |-> Prop(res, "creativeId"),
     netRevenue |-> Bool(TRUE),
     ttl |-> Or(Prop(res, "ttl"), Num(DefaultTtl))]

\* the test of the GET adapter for a native response
isNativeResponse(res) ==
    Truthy(Prop(res, "native")) /\ GreaterThanZero(Prop(Prop(res, "native"), "length"))

\* a record with one more field
With(r, k, val) == [x \in DOMAIN r \cup {k} |-> IF x = k THEN val ELSE r[x]]

\* interpretResponse that tests the body with !res in place of isEmpty(res)
interpretResponse_GET_falsyCheck(bidderResponse) ==
    LET res == Prop(bidderResponse, "body")
    IN IF ~Truthy(res)
       THEN [bids |-> <<>>, body |-> res, logged |-> 0, thrown |-> "none"]
       ELSE IF isNativeResponse(res)
       THEN IF getNativeAdThrows(Prop(res, "native"))
            THEN [bids |-> <<>>, body |-> res, logged |-> 0, thrown |-> "TypeError"]
            ELSE [bids |-> << With(With(baseBid_GET(res), "mediaType", NATIVE),
                                   "native", getNativeAd(Prop(res, "native"))) >>,
                  body |-> res, logged |-> 0, thrown |-> "none"]
       ELSE LET b == getBannerAd(res)
            IN [bids |-> << With(With(baseBid_GET(res), "mediaType", BANNER), "ad", b.ad) >>,
                body |-> b.res, logged |-> b.logged, thrown |-> "none"]

\* spec.interpretResponse of the GET adapter: the bids returned, the body
\* after the call, the errors logged and the error raised
interpretResponse_GET(bidderResponse) ==
    LET res == Prop(bidderResponse, "body")
    IN IF isEmpty(res)
       THEN [bids |-> <<>>, body |-> res, logged |-> 0, thrown |-> "none"]
       ELSE IF isNativeResponse(res)
       THEN IF getNativeAdThrows(Prop(res, "native"))
            THEN [bids |-> <<>>, body |-> res, logged |-> 0, thrown |-> "TypeError"]
            ELSE [bids |-> << With(With(baseBid_GET(res), "mediaType", NATIVE),
                                   "native", getNativeAd(Prop(res, "native"))) >>,
                  body |-> res, logged |-> 0, thrown |-> "none"]
       ELSE LET b == getBannerAd(res)
            IN [bids |-> << With(With(baseBid_GET(res), "mediaType", BANNER), "ad", b.ad) >>,
                body |-> b.res, logged |-> b.logged, thrown |-> "none"]

\* the callback of the POST adapter's _each(res.bids, ...): the bid pushed for
\* the row and the errors logged
rowBid_POST(res, row) ==
    LET r == appendPixels(Prop(row, "ad"), eachItems(Prop(row, "imps")), 1)
    IN [bid |-> [requestId |-> Prop(row, "bid"),
                 cpm |-> Prop(row, "price"),
                 currency |-> Prop(res, "cur"),
                 width |-> Prop(row, "w"),
                 height |-> Prop(row, "h"),
                 ad |-> r.ad,
                 creativeId |-> Prop(row, "creativeId"),
                 netRevenue |-> Bool(TRUE),
                 ttl |-> Or(Prop(res, "ttl"), Num(DefaultTtl)),
                 adomains |-> Prop(row, "adomains")],
        logged |-> IF r.threw THEN 1 ELSE 0]

RECURSIVE sumLogged(_, _, _)
sumLogged(res, rows, i) ==
    IF i > Len(rows) THEN 0
    ELSE rowBid_POST(res, rows[i]).logged + sumLogged(res, rows, i + 1)

\* spec.interpretResponse of the POST adapter
interpretResponse_POST(serverResponses_) ==
    LET res == Prop(serverResponses_, "body")
        rows == eachItems(Prop(res, "bids"))
    IN IF isEmpty(res)
       THEN [bids |-> <<>>, body |-> res, logged |-> 0, thrown |-> "none"]
       ELSE IF \E i \in 1..Len(rows) : ~Readable(rows[i])
       THEN [bids |-> <<>>, body |-> res, logged |-> 0, thrown |-> "TypeError"]
       ELSE [bids |-> [i \in 1..Len(rows) |-> rowBid_POST(res, rows[i]).bid],
             body |-> res, logged |-> sumLogged(res, rows, 1), thrown |-> "none"]

\* spec.interpretResponse of the registered adapter
interpretResponse(v, response) ==
    IF v = "GET" THEN interpretResponse_GET(response)
    ELSE interpretResponse_POST(response)

-----------------------------------------------------------------------------
(* getUserSyncs                                                            *)

\* the test of getUserSyncs on one response raises a TypeError when
\* res.body.syncs is read off a truthy body and is undefined or null
syncTestThrows(so, res) ==
    /\ Truthy(Prop(so, "pixelEnabled"))
    /\ Truthy(Prop(res, "body"))
    /\ ~Readable(Prop(Prop(res, "body"), "syncs"))

\* the test of getUserSyncs on one response, where it does not raise
syncTest(so, res) ==
    /\ Truthy(Prop(so, "pixelEnabled"))
    /\ Truthy(Prop(res, "body"))
    /\ Truthy(Prop(Prop(Prop(res, "body"), "syncs"), "length"))

\* the pixels pushed for one response
syncsOf(res) ==
    LET list == eachItems(Prop(Prop(res, "body"), "syncs"))
    IN [i \in 1..Len(list) |-> Obj([type |-> Str("image"), url |-> list[i]])]

\* the loop of getUserSyncs over the responses, from response i on, until a
\* response makes the test raise
RECURSIVE syncLoop(_, _, _, _)
syncLoop(syncs, so, resps, i) ==
    IF i > Len(resps) THEN [syncs |-> syncs, thrown |-> "none"]
    ELSE IF syncTestThrows(so, resps[i]) THEN [syncs |-> <<>>, thrown |-> "TypeError"]
    ELSE syncLoop(IF syncTest(so, resps[i]) THEN syncs \o syncsOf(resps[i]) ELSE syncs,
                  so, resps, i + 1)

\* spec.getUserSyncs, the same in both adapters: the pixels returned and the
\* error raised
getUserSyncs(so, resps) ==
    IF Len(resps) = 0 THEN [syncs |-> <<>>, thrown |-> "none"]
    ELSE syncLoop(<<>>, so, resps, 1)

-----------------------------------------------------------------------------
(* The responses of the server                                             *)

T1 == Str("http://t1")
T2 == Str("http://t 2")
TBad == Str(Malformed)
Markup == Str("<div>ad</div>")

EmptyBodies == { Undef, Null, EmptyObj, Str(""), Arr(<<>>) }

\* the bid field of a row: missing, the id of a request, an id of no request
BidFields == { Undef, Str("b1"), Str("b2"), Str("zz") }

Ttls == { Undef, Num(60), Num(0) }

ImpsChoices ==
    { Undef, Arr(<<>>), Arr(<<T1>>), Arr(<<T1, T2>>), Arr(<<TBad>>), Arr(<<T1, TBad, T2>>) }

TitleAsset == Obj([id |-> Num(0), title |-> Obj([text |-> Str("T")])])
ImageAsset == Obj([id |-> Num(4), img |-> Obj([url |-> Str("http://img"), w |-> Num(300), h |-> Num(250)])])
Link == Obj([url |-> Str("http://click/")])

\* the native field of a GET response: the native object of the protocol
\* (assets, link, ...), with or without assets, and values that have a length
NativeChoices ==
    { Obj([assets |-> Arr(<<TitleAsset, ImageAsset>>), link |-> Link]),
      Obj([assets |-> Arr(<<>>), link |-> Link]),
      Arr(<<TitleAsset>>),
      Obj([assets |-> Arr(<<TitleAsset>>), link |-> Link, length |-> Num(1)]) }

Row(bid, ad, imps, native) ==
    Literal([bid |-> bid, price |-> Num(100), w |-> Num(300), h |-> Num(250),
             creativeId |-> Str("c1"), ad |-> ad, imps |-> imps, native |-> native])

\* the bodies of the GET protocol: one row, with cur and ttl beside its fields
Bodies_GET ==
    EmptyBodies
    \cup { Literal(With(With(Row(bid, ad, imps, Undef).o, "cur", Str("JPY")), "ttl", ttl)) :
             bid \in BidFields, ad \in {Markup, Undef}, imps \in ImpsChoices, ttl \in Ttls }
    \cup { Literal(With(With(Row(bid, Undef, Undef, native).o, "cur", Str("JPY")), "ttl", ttl)) :
             bid \in BidFields, native \in NativeChoices, ttl \in Ttls }

Rows_POST ==
    { Row(bid, Markup, imps, Undef) :
        bid \in {Undef, Str("b1"), Str("zz")},
        imps \in {Undef, Arr(<<T1, T2>>), Arr(<<T1, TBad, T2>>)} }

\* the sequences of length 0..n over S
SeqsUpTo(S, n) == UNION { [1..k -> S] : k \in 0..n }

\* the bodies of the POST protocol: cur, ttl and the list of rows
Bodies_POST ==
    EmptyBodies
    \cup { Literal([cur |-> Str("JPY"), ttl |-> ttl, bids |-> Arr(rows)]) :
             ttl \in Ttls, rows \in SeqsUpTo(Rows_POST, MaxRows) }
    \cup { Obj([cur |-> Str("JPY")]) }

Bodies(v) == IF v = "GET" THEN Bodies_GET ELSE Bodies_POST

U1 == Str("http://sync1")
U2 == Str("http://sync2")

\* the responses handed to getUserSyncs
SyncResponses ==
    { EmptyObj }
    \cup { Obj([body |-> b]) :
             b \in { Str(""), EmptyObj, Obj([cur |-> Str("JPY")]),
                     Obj([syncs |-> Arr(<<>>)]), Obj([syncs |-> Arr(<<U1>>)]),
                     Obj([syncs |-> Arr(<<U1, U2>>)]), Obj([syncs |-> Arr(<<U2, U2>>)]) } }

SyncOptionsChoices ==
    { EmptyObj, Obj([pixelEnabled |-> Bool(FALSE)]), Obj([pixelEnabled |-> Bool(TRUE)]) }

-----------------------------------------------------------------------------
(* The state machine                                                       *)

Init ==
    /\ variant \in {"GET", "POST"}
    /\ config = Undef
    /\ dnt = FALSE
    /\ validBidRequests = <<>>
    /\ bidderRequest = Undef
    /\ serverRequests = <<>>
    /\ serverResponse = Undef
    /\ received = Undef
    /\ entryBody = Undef
    /\ bids = <<>>
    /\ prevBids = <<>>
    /\ calls = 0
    /\ errorLog = 0
    /\ syncOptions = Undef
    /\ serverResponses = <<>>
    /\ userSyncs = <<>>
    /\ thrown = "none"
    /\ op = "none"

\* the page is set up before its auction starts
Configuring == op \in {"none", "setConfig", "setDNT"}

\* the publisher sets currency.adServerCurrency
SetConfig(c) ==
    /\ Configuring
    /\ config' = c
    /\ op' = "setConfig"
    /\ thrown' = "none"
    /\ UNCHANGED <<variant, dnt, buildVars, respVars, syncVars>>

\* the browser's do-not-track setting changes
SetDNT(b) ==
    /\ Configuring
    /\ dnt' = b
    /\ op' = "setDNT"
    /\ thrown' = "none"
    /\ UNCHANGED <<variant, config, buildVars, respVars, syncVars>>

\* the orchestrator starts the auction: spec.buildRequests(vbr, br). No
\* response of the auction exists yet.
BuildRequests(vbr, br) ==
    /\ Configuring
    /\ validBidRequests' = vbr
    /\ bidderRequest' = br
    /\ serverRequests' = buildRequests(variant, vbr, br, config, dnt)
    /\ serverResponse' = Undef
    /\ received' = Undef
    /\ entryBody' = Undef
    /\ bids' = <<>>
    /\ prevBids' = <<>>
    /\ calls' = 0
    /\ errorLog' = 0
    /\ op' = "buildRequests"
    /\ thrown' = "none"
    /\ UNCHANGED <<envVars, syncVars>>

\* the orchestrator receives the answer to a request: a new response object
Receive(body) ==
    /\ op = "buildRequests"
    /\ Len(serverRequests) > 0
    /\ serverResponse' = Obj([body |-> body])
    /\ received' = body
    /\ entryBody' = Undef
    /\ bids' = <<>>
    /\ prevBids' = <<>>
    /\ calls' = 0
    /\ errorLog' = 0
    /\ op' = "receive"
    /\ thrown' = "none"
    /\ UNCHANGED <<envVars, buildVars, syncVars>>

\* spec.interpretResponse(serverResponse, request) on the response object held
InterpretResponse ==
    /\ serverResponse # Undef
    /\ calls < MaxCalls
    /\ LET r == interpretResponse(variant, serverResponse)
       IN /\ serverResponse' = SetProp(serverResponse, "body", r.body)
          /\ bids' = r.bids
          /\ errorLog' = r.logged
          /\ thrown' = r.thrown
    /\ entryBody' = Prop(serverResponse, "body")
    /\ prevBids' = bids
    /\ calls' = calls + 1
    /\ op' = "interpretResponse"
    /\ UNCHANGED <<envVars, buildVars, received, syncVars>>

\* spec.getUserSyncs(so, resps), after the auction
GetUserSyncs(so, resps) ==
    /\ op # "getUserSyncs"
    /\ syncOptions' = so
    /\ serverResponses' = resps
    /\ LET r == getUserSyncs(so, resps)
       IN /\ userSyncs' = r.syncs
          /\ thrown' = r.thrown
    /\ op' = "getUserSyncs"
    /\ UNCHANGED <<envVars, buildVars, respVars>>

\* an auction round: the requests are built, a response arrives and is
\* interpreted
Next ==
    \/ \E vbr \in SlotOrderBidLists : BuildRequests(vbr, PlainBidderRequest)
    \/ \E body \in Bodies(variant) : Receive(body)
    \/ InterpretResponse

Spec == Init /\ [][Next]_vars

\* buildRequests over its inputs and its environment
NextBuild ==
    \/ \E c \in GlobalCurrencies : SetConfig(c)
    \/ \E b \in BOOLEAN : SetDNT(b)
    \/ \E vbr \in ValidBidLists, br \in BidderRequests : BuildRequests(vbr, br)

SpecBuild == Init /\ [][NextBuild]_vars

\* getUserSyncs over its inputs
NextSync ==
    \E so \in SyncOptionsChoices, resps \in SeqsUpTo(SyncResponses, MaxResponses) :
        GetUserSyncs(so, resps)

SpecSync == Init /\ [][NextSync]_vars

-----------------------------------------------------------------------------
(* What the properties read off the state                                  *)

\* the keys of a query string, in the order they were appended
QueryKeys(q) == { q[i] : i \in { j \in 1..Len(q) : j % 4 = 1 } }

\* the encoded values the query string gives for the key
QueryValues(q, key) == { q[i + 2] : i \in { j \in 1..Len(q) : j % 4 = 1 /\ q[j] = key } }

\* the bidIds of the requests passed to buildRequests
RequestedBidIds == { Prop(validBidRequests[j], "bidId") : j \in 1..Len(validBidRequests) }

\* the rows of the body interpretResponse was entered with
RowsAtEntry ==
    IF variant = "GET" THEN << entryBody >>
    ELSE IF Prop(entryBody, "bids").t = "array" THEN Prop(entryBody, "bids").a
    ELSE <<>>

Interpreted == op = "interpretResponse" /\ thrown = "none"

NonEmptyObjectBody == entryBody.t = "object" /\ DOMAIN entryBody.o # {}

-----------------------------------------------------------------------------
(* C1 *)

\* C1: two calls of interpretResponse in a row on the same response object,
\* whose body is not empty, return equal lists of bids (the pixels are not
\* appended a second time).
C1_SecondCallEqual ==
    (op = "interpretResponse" /\ calls >= 2 /\ received \notin EmptyBodies)
        => bids = prevBids

-----------------------------------------------------------------------------
(* C2 *)

\* C2: every bid interpretResponse returns has the bidId of exactly one of the
\* requests passed to buildRequests as its requestId.
C2_RequestIdOfARequest ==
    Interpreted =>
        \A i \in 1..Len(bids) :
            Cardinality({ j \in 1..Len(validBidRequests) :
                            Prop(validBidRequests[j], "bidId") = bids[i].requestId }) = 1

\* C2 as amended: interpretResponse returns one bid per row, in the order of
\* the rows, and each bid's requestId is the bid field of its row, whatever it
\* is; so the requestId is the bidId of a request exactly when the row names one.
C2_RequestIdOfRow ==
    (Interpreted /\ NonEmptyObjectBody) =>
        /\ Len(bids) = Len(RowsAtEntry)
        /\ \A i \in 1..Len(bids) :
              /\ bids[i].requestId = Prop(RowsAtEntry[i], "bid")
              /\ Cardinality({ j \in 1..Len(validBidRequests) :
                                 Prop(validBidRequests[j], "bidId") = bids[i].requestId })
                   = IF Prop(RowsAtEntry[i], "bid") \in RequestedBidIds THEN 1 ELSE 0

C2_Witness ==
    /\ Interpreted
    /\ variant = "POST"
    /\ Len(bids) = 2
    /\ bids[1].requestId = Str("b1")
    /\ bids[1].requestId \in RequestedBidIds
    /\ bids[2].requestId = Str("zz")

-----------------------------------------------------------------------------
(* C3 *)

\* whether the response's native object carries a non-empty list of assets
HasNativeAssets(res) ==
    /\ Prop(res, "native").t = "object"
    /\ Prop(Prop(res, "native"), "assets").t = "array"
    /\ Len(Prop(Prop(res, "native"), "assets").a) > 0

\* C3: in per-request mode a response whose native object carries a non-empty
\* list of assets gives a bid of mediaType NATIVE with the native bundle (its
\* title the text of the asset of id 0), every other response a bid of
\* mediaType BANNER with the ad markup.
C3_NativeClassification ==
    (op = "interpretResponse" /\ variant = "GET" /\ NonEmptyObjectBody) =>
        /\ thrown = "none"
        /\ Len(bids) = 1
        /\ IF HasNativeAssets(entryBody)
           THEN /\ bids[1].mediaType = NATIVE
                /\ "native" \in DOMAIN bids[1]
                /\ (TitleAsset = Prop(Prop(entryBody, "native"), "assets").a[1]
                      => Prop(bids[1].native, "title") = Str("T"))
           ELSE /\ bids[1].mediaType = BANNER
                /\ "ad" \in DOMAIN bids[1]

-----------------------------------------------------------------------------
(* C4 *)

\* the currency the claim expects
ExpectedCurrency ==
    IF Truthy(currencyOverride(bidderRequest)) THEN currencyOverride(bidderRequest)
    ELSE IF Truthy(config) THEN config
    ELSE Str("JPY")

\* C4: the cur of every wire request is the per-auction override when there is
\* one, else the global ad-server currency when one is configured, else JPY.
C4_CurrencyResolution ==
    op = "buildRequests" =>
        \A i \in 1..Len(serverRequests) :
            IF variant = "GET"
            THEN QueryValues(serverRequests[i].data, "cur") = { ExpectedCurrency.s }
            ELSE Prop(serverRequests[i].data, "cur") = ExpectedCurrency

-----------------------------------------------------------------------------
(* C5 *)

\* no external identity is available: no userId, or no string idl_env
NoIdentity ==
    \/ ~Truthy(Prop(bidderRequest, "userId"))
    \/ ~isStr(Prop(Prop(bidderRequest, "userId"), "idl_env"))

\* C5: in per-request mode no key of the query string has an empty value, and
\* without an external identity the query string has no usr key.
C5_NoEmptyField ==
    (op = "buildRequests" /\ variant = "GET") =>
        \A i \in 1..Len(serverRequests) :
            LET q == serverRequests[i].data
            IN /\ \A k \in QueryKeys(q) : "" \notin QueryValues(q, k)
               /\ (NoIdentity => "usr" \notin QueryKeys(q))

-----------------------------------------------------------------------------
(* C6 *)

\* C6: per-request mode returns one GET request per bid, in the order of the
\* bids, each carrying its bid's bidId and sid; aggregate mode returns one POST
\* request whose requests list has one {bid, sid} entry per bid, in that order.
C6_OneRequestPerBid ==
    op = "buildRequests" =>
        IF variant = "GET"
        THEN /\ Len(serverRequests) = Len(validBidRequests)
             /\ \A i \in 1..Len(validBidRequests) :
                   /\ serverRequests[i].method = "GET"
                   /\ QueryValues(serverRequests[i].data, "bid")
                        = { Prop(validBidRequests[i], "bidId").s }
                   /\ QueryValues(serverRequests[i].data, "sid")
                        = { Prop(Prop(validBidRequests[i], "params"), "sid").s }
        ELSE /\ Len(serverRequests) = 1
             /\ serverRequests[1].method = "POST"
             /\ Prop(serverRequests[1].data, "requests").t = "array"
             /\ LET requests == Prop(serverRequests[1].data, "requests").a
                IN /\ Len(requests) = Len(validBidRequests)
                   /\ \A i \in 1..Len(validBidRequests) :
                         requests[i] =
                             Obj([bid |-> Prop(validBidRequests[i], "bidId"),
                                  sid |-> Prop(Prop(validBidRequests[i], "params"), "sid")])

C6_Witness ==
    /\ op = "buildRequests"
    /\ variant = "GET"
    /\ Len(validBidRequests) = 2
    /\ Prop(validBidRequests[1], "bidId") = Str("b3")
    /\ Prop(validBidRequests[2], "bidId") = Str("b1")
    /\ Len(serverRequests) = 2
    /\ QueryValues(serverRequests[1].data, "bid") = {"b3"}

-----------------------------------------------------------------------------
(* C7, C9 *)

\* the sync URLs of a response whose body carries a list of syncs
SyncUrlsOf(res) ==
    IF /\ Prop(res, "body").t = "object"
       /\ Prop(Prop(res, "body"), "syncs").t = "array"
    THEN Prop(Prop(res, "body"), "syncs").a
    ELSE <<>>

\* the pixels of the responses from response i on, in the order of the
\* responses and of their lists, duplicates kept
RECURSIVE PixelsFrom(_, _)
PixelsFrom(resps, i) ==
    IF i > Len(resps) THEN <<>>
    ELSE [k \in 1..Len(SyncUrlsOf(resps[i])) |->
            Obj([type |-> Str("image"), url |-> SyncUrlsOf(resps[i])[k]])]
         \o PixelsFrom(resps, i + 1)

PixelEnabled == Prop(syncOptions, "pixelEnabled") = Bool(TRUE)

\* C7: getUserSyncs returns the pixels of the responses that carry a non-empty
\* list of syncs, in order, when pixelEnabled is true, and the empty list when
\* it is false or there is no response.
C7_SyncPixels ==
    op = "getUserSyncs" =>
        /\ thrown = "none"
        /\ userSyncs = IF PixelEnabled THEN PixelsFrom(serverResponses, 1) ELSE <<>>

\* a response whose body is there and has no syncs field
LacksSyncs(res) ==
    /\ Prop(res, "body").t = "object"
    /\ "syncs" \notin DOMAIN Prop(res, "body").o

\* C9: with pixelEnabled true, a response whose body has no syncs field adds no
\* pixel and raises no error: the result is the pixels of the other responses.
C9_MissingSyncsNoError ==
    (/\ op = "getUserSyncs"
     /\ PixelEnabled
     /\ \E i \in 1..Len(serverResponses) : LacksSyncs(serverResponses[i]))
        => (thrown = "none" /\ userSyncs = PixelsFrom(serverResponses, 1))

-----------------------------------------------------------------------------
(* C8 *)

\* C8: interpretResponse on a response whose body is undefined, null, the
\* empty object or the empty string returns the empty list and raises nothing.
C8_EmptyBodyNoBids ==
    (op = "interpretResponse" /\ entryBody \in { Undef, Null, EmptyObj, Str("") })
        => (bids = <<>> /\ thrown = "none")

C8_Witness ==
    /\ op = "interpretResponse"
    /\ entryBody = EmptyObj
    /\ calls = 1
    /\ bids = <<>>

-----------------------------------------------------------------------------
(* C10 *)

\* the tracking-pixel snippet of a tracker URL
PixelOf(u) ==
    CASE u = T1 ->
           "<div style=\"position:absolute;left:0px;top:0px;visibility:hidden;\"><img src=\"http://t1\"></div>"
      [] u = T2 ->
           "<div style=\"position:absolute;left:0px;top:0px;visibility:hidden;\"><img src=\"http://t%202\"></div>"

\* the markup followed by the snippets of the trackers from i on, up to the
\* first tracker that cannot be encoded
RECURSIVE MarkupWith(_, _, _)
MarkupWith(m, trackers, i) ==
    IF i > Len(trackers) \/ trackers[i] = TBad THEN m
    ELSE MarkupWith(m \o PixelOf(trackers[i]), trackers, i + 1)

TrackersOf(row) == IF Prop(row, "imps").t = "array" THEN Prop(row, "imps").a ELSE <<>>

\* appending the pixels of the row fails: a tracker cannot be encoded or, in
\* per-request mode, there is no list of trackers to walk
AppendFails(row) ==
    \/ \E k \in 1..Len(TrackersOf(row)) : TrackersOf(row)[k] = TBad
    \/ variant = "GET" /\ Prop(row, "imps").t # "array"

\* a row with markup that is answered as a banner
BannerRow(row) ==
    /\ Prop(row, "ad").t = "string"
    /\ variant = "GET" => "native" \notin DOMAIN row.o

====
